---- MODULE Spec2Model ----
(***************************************************************************)
(* A model of src/components/synctexjs.ts: the SyncTeX parser              *)
(* (parseSyncTex), the covering rectangle (getCoveringRectangle) and the   *)
(* two queries built on them (syncTexJsForward, syncTexJsBackward).        *)
(*                                                                         *)
(* Lengths.  The parser stores every length as raw / unit, unit being the  *)
(* fixed divisor 65781.76.  The queries only add, subtract, compare and    *)
(* interpolate lengths, so the model holds a length by its numerator over  *)
(* that one divisor (an integer), and holds an interpolated length as a    *)
(* fraction [num, den].  The arithmetic is exact: the rounding of IEEE     *)
(* doubles is not modelled.                                                *)
(*                                                                         *)
(* Objects.  Pages, blocks and elements live in the heap objs and are      *)
(* referred to by their position in it.  A value that may be undefined is  *)
(* held as <<>> (undefined) or <<v>>.  A JavaScript object used as a       *)
(* dictionary is a sequence of [k, v] entries in insertion order.          *)
(***************************************************************************)
EXTENDS Integers, Sequences, FiniteSets, TLC

VARIABLES
    pc,              \* "start", "parse", "done" (returned) or "error" (thrown)
    matched,         \* the pattern the line of the current iteration matched ("" outside the loop)
    thrown,          \* the name of the error thrown, "" while none
    pdfsyncObject,   \* the object parseSyncTex returns: offset and version are set in place
    files,           \* files table: fileNumber -> File
    pages,           \* pages table: key of the close marker -> Page
    blockNumberLine, \* derived index: path -> line -> page -> elements
    hBlocks,         \* every horizontal block, in creation order
    numberPages,     \* largest page number opened
    currentPage,     \* undefined or the open Page
    currentElement,  \* undefined or the current context (a Page or a Block)
    objs,            \* the heap of Page and Block objects
    result           \* outcome of the last query or rectangle computation

vars == << pc, matched, thrown, pdfsyncObject, files, pages, blockNumberLine, hBlocks,
           numberPages, currentPage, currentElement, objs, result >>

parserVars == << pc, matched, thrown, pdfsyncObject, files, pages, blockNumberLine, hBlocks,
                 numberPages, currentPage, currentElement, objs >>

---------------------------------------------------------------------------
(* Values that may be undefined *)

undefined == << >>

Some(v) == << v >>

Val(o) == o[1]

---------------------------------------------------------------------------
(* JavaScript objects used as dictionaries *)

Has(o, k) == \E i \in DOMAIN o : o[i].k = k

Get(o, k) == o[CHOOSE i \in DOMAIN o : o[i].k = k].v

\* o[k] = v: an existing key keeps its place, a new key is appended.
Put(o, k, v) ==
    IF Has(o, k)
    THEN [i \in DOMAIN o |-> IF o[i].k = k THEN [k |-> k, v |-> v] ELSE o[i]]
    ELSE Append(o, [k |-> k, v |-> v])

\* o[k], undefined when the key is absent.
Lookup(o, k) == IF Has(o, k) THEN Some(Get(o, k)) ELSE undefined

InsertionKeys(o) == [i \in DOMAIN o |-> o[i].k]

\* The elements of a finite set of integers in ascending order.
RECURSIVE Ascending(_)
Ascending(S) ==
    IF S = {} THEN << >>
    ELSE LET m == CHOOSE x \in S : \A y \in S : x <= y
         IN << m >> \o Ascending(S \ {m})

---------------------------------------------------------------------------
(* parseSyncTex *)

isBlock(b) == "parent" \in DOMAIN objs[b]

Init ==
    /\ pc = "start"
    /\ matched = ""
    /\ thrown = ""
    /\ pdfsyncObject = [offset |-> [x |-> 0, y |-> 0], version |-> "", files |-> << >>,
                        pages |-> << >>, blockNumberLine |-> << >>, hBlocks |-> << >>,
                        numberPages |-> 0]
    /\ files = << >>
    /\ pages = << >>
    /\ blockNumberLine = << >>
    /\ hBlocks = << >>
    /\ numberPages = 0
    /\ currentPage = undefined
    /\ currentElement = undefined
    /\ objs = << >>
    /\ result = [op |-> "none"]

\* throw new SyncTexJsError(...), or the TypeError of a property read on undefined
Throw(name) ==
    /\ pc' = "error"
    /\ thrown' = name
    /\ UNCHANGED << pdfsyncObject, files, pages, blockNumberLine, hBlocks, numberPages,
                    currentPage, currentElement, objs, result >>

\* pdfsyncBody === undefined: the empty object is returned as constructed.
ReturnEmpty ==
    /\ pc = "start"
    /\ pc' = "done"
    /\ UNCHANGED << matched, thrown, pdfsyncObject, files, pages, blockNumberLine, hBlocks,
                    numberPages, currentPage, currentElement, objs, result >>

\* lineArray[0], the version banner
ReadVersion(v) ==
    /\ pc = "start"
    /\ pc' = "parse"
    /\ pdfsyncObject' = [pdfsyncObject EXCEPT !.version = v]
    /\ UNCHANGED << matched, thrown, files, pages, blockNumberLine, hBlocks, numberPages,
                    currentPage, currentElement, objs, result >>

\* Input:<id>:<path>
InputFile(id, path) ==
    /\ pc = "parse"
    /\ matched' = "input"
    /\ files' = Put(files, id, [path |-> path])
    /\ UNCHANGED << pc, thrown, pdfsyncObject, pages, blockNumberLine, hBlocks,
                    numberPages, currentPage, currentElement, objs, result >>

\* <X|Y> Offset:<raw>
Offset(axis, raw) ==
    /\ pc = "parse"
    /\ matched' = "offset"
    /\ pdfsyncObject' =
          IF axis = "X" THEN [pdfsyncObject EXCEPT !.offset.x = raw]
                        ELSE [pdfsyncObject EXCEPT !.offset.y = raw]
    /\ UNCHANGED << pc, thrown, files, pages, blockNumberLine, hBlocks, numberPages,
                    currentPage, currentElement, objs, result >>

\* A page open that leaves an open block as the current context
NewPageKeepingContext(n) ==
    /\ pc = "parse"
    /\ matched' = "newPage"
    /\ objs' = Append(objs, [type |-> "page", page |-> n, blocks |-> << >>])
    /\ currentPage' = Some(Len(objs) + 1)
    /\ numberPages' = IF n > numberPages THEN n ELSE numberPages
    /\ currentElement' = IF currentElement = undefined THEN Some(Len(objs) + 1)
                         ELSE currentElement
    /\ UNCHANGED << pc, thrown, pdfsyncObject, files, pages, blockNumberLine, hBlocks,
                    result >>

\* {<n>
NewPage(n) ==
    /\ pc = "parse"
    /\ matched' = "newPage"
    /\ objs' = Append(objs, [type |-> "page", page |-> n, blocks |-> << >>])
    /\ currentPage' = Some(Len(objs) + 1)
    /\ numberPages' = IF n > numberPages THEN n ELSE numberPages
    /\ currentElement' = Some(Len(objs) + 1)
    /\ UNCHANGED << pc, thrown, pdfsyncObject, files, pages, blockNumberLine, hBlocks,
                    result >>

\* }<n>: with no page open the line matches no later pattern and is skipped.
ClosePage(n) ==
    /\ pc = "parse"
    /\ matched' = "closePage"
    /\ IF currentPage # undefined
       THEN /\ pages' = Put(pages, n, Val(currentPage))
            /\ currentPage' = undefined
       ELSE UNCHANGED << pages, currentPage >>
    /\ UNCHANGED << pc, thrown, pdfsyncObject, files, blockNumberLine, hBlocks,
                    numberPages, currentElement, objs, result >>

\* The vertical Block of a line [<file>,<line>:<left>,<bottom>:<width>,<height>,<depth>
VBlock(fileNumber, line, left, bottom, width, height, depth) ==
    [type |-> "vertical", parent |-> Val(currentElement),
     fileNumber |-> fileNumber, file |-> Lookup(files, fileNumber),
     line |-> line, left |-> left, bottom |-> bottom,
     width |-> Some(width), height |-> height, depth |-> depth,
     blocks |-> << >>, elements |-> << >>,
     page |-> objs[Val(currentPage)].page]

\* currentElement = block, the new Block being a new object of the heap
Open(block) ==
    /\ objs' = Append(objs, block)
    /\ currentElement' = Some(Len(objs) + 1)
    /\ UNCHANGED << pc, thrown, pdfsyncObject, files, pages, blockNumberLine,
                    numberPages, currentPage, result >>

\* NewVBlock with a guard that forgets the open page: the read of
\* currentPage.page then fails with a TypeError.
NewVBlockPageUnchecked(fileNumber, line, left, bottom, width, height, depth) ==
    /\ pc = "parse"
    /\ matched' = "newVBlock"
    /\ IF currentElement = undefined
       THEN Throw("SyncTexJsError")
       ELSE IF currentPage = undefined
       THEN Throw("TypeError")
       ELSE /\ Open(VBlock(fileNumber, line, left, bottom, width, height, depth))
            /\ UNCHANGED hBlocks

\* [<file>,<line>:<left>,<bottom>:<width>,<height>,<depth>
NewVBlock(fileNumber, line, left, bottom, width, height, depth) ==
    /\ pc = "parse"
    /\ matched' = "newVBlock"
    /\ IF currentPage = undefined \/ currentElement = undefined
       THEN Throw("SyncTexJsError")
       ELSE /\ Open(VBlock(fileNumber, line, left, bottom, width, height, depth))
            /\ UNCHANGED hBlocks

\* A close handler that throws where the code skips the line
CloseBlockThrowing(kind) ==
    /\ pc = "parse"
    /\ matched' = kind
    /\ IF /\ currentElement # undefined
          /\ isBlock(Val(currentElement))
          /\ isBlock(objs[Val(currentElement)].parent)
          /\ "blocks" \in DOMAIN objs[objs[Val(currentElement)].parent]
       THEN LET cur == Val(currentElement)
                par == objs[cur].parent
            IN /\ objs' = [objs EXCEPT ![par].blocks = Append(@, cur)]
               /\ currentElement' = Some(par)
               /\ UNCHANGED << pc, thrown, pdfsyncObject, files, pages, blockNumberLine,
                               hBlocks, numberPages, currentPage, result >>
       ELSE Throw("SyncTexJsError")

\* The body shared by the two close handlers: the block is appended to its
\* parent and the parent becomes the context only when the parent is a Block.
CloseBlock(kind) ==
    /\ pc = "parse"
    /\ matched' = kind
    /\ IF /\ currentElement # undefined
          /\ isBlock(Val(currentElement))
          /\ isBlock(objs[Val(currentElement)].parent)
          /\ "blocks" \in DOMAIN objs[objs[Val(currentElement)].parent]
       THEN LET cur == Val(currentElement)
                par == objs[cur].parent
            IN /\ objs' = [objs EXCEPT ![par].blocks = Append(@, cur)]
               /\ currentElement' = Some(par)
       ELSE UNCHANGED << objs, currentElement >>
    /\ UNCHANGED << pc, thrown, pdfsyncObject, files, pages, blockNumberLine, hBlocks,
                    numberPages, currentPage, result >>

\* ]
CloseVBlock == CloseBlock("closeVBlock")

\* (<file>,<line>:<left>,<bottom>:<width>,<height>,<depth>
HBlock(fileNumber, line, left, bottom, width, height) ==
    [type |-> "horizontal", parent |-> Val(currentElement),
     fileNumber |-> fileNumber, file |-> Lookup(files, fileNumber),
     line |-> line, left |-> left, bottom |-> bottom,
     width |-> Some(width), height |-> height,
     blocks |-> << >>, elements |-> << >>,
     page |-> objs[Val(currentPage)].page]

NewHBlock(fileNumber, line, left, bottom, width, height) ==
    /\ pc = "parse"
    /\ matched' = "newHBlock"
    /\ IF currentPage = undefined \/ currentElement = undefined
       THEN Throw("SyncTexJsError")
       ELSE /\ Open(HBlock(fileNumber, line, left, bottom, width, height))
            /\ hBlocks' = Append(hBlocks, Len(objs) + 1)

\* )
CloseHBlock == CloseBlock("closeHBlock")

\* |v|: the element pattern captures the digits of left, bottom and width
\* after an optional minus sign, so the sign is dropped.
Digits(v) == IF v < 0 THEN -v ELSE v

\* The element put at the front of its bucket
IndexPushFront(index, path, lineNumber, page, elem) ==
    LET linePageBlocks == IF Has(index, path) THEN Get(index, path) ELSE << >>
        pageBlocks == IF Has(linePageBlocks, lineNumber)
                      THEN Get(linePageBlocks, lineNumber) ELSE << >>
        blocks == IF Has(pageBlocks, page) THEN Get(pageBlocks, page) ELSE << >>
    IN Put(index, path,
           Put(linePageBlocks, lineNumber,
               Put(pageBlocks, page, << elem >> \o blocks)))

\* blockNumberLine[path][lineNumber][page].push(elem), creating the levels first
IndexPush(index, path, lineNumber, page, elem) ==
    LET linePageBlocks == IF Has(index, path) THEN Get(index, path) ELSE << >>
        pageBlocks == IF Has(linePageBlocks, lineNumber)
                      THEN Get(linePageBlocks, lineNumber) ELSE << >>
        blocks == IF Has(pageBlocks, page) THEN Get(pageBlocks, page) ELSE << >>
    IN Put(index, path,
           Put(linePageBlocks, lineNumber,
               Put(pageBlocks, page, Append(blocks, elem))))

\* <type><file>,<line>:<left>,<bottom>[:<width>]   (width: undefined or Some(raw))
NewElement(type, fileNumber, lineNumber, left, bottom, width) ==
    /\ pc = "parse"
    /\ matched' = "newElement"
    /\ IF \/ currentPage = undefined
          \/ currentElement = undefined
          \/ ~isBlock(Val(currentElement))
       THEN Throw("SyncTexJsError")
       ELSE IF ~Has(files, fileNumber)
       THEN Throw("TypeError")      \* elem.file.path with elem.file undefined
       ELSE LET cur == Val(currentElement)
                ref == Len(objs) + 1
                elem == [type |-> type, parent |-> cur, fileNumber |-> fileNumber,
                         file |-> Lookup(files, fileNumber), line |-> lineNumber,
                         left |-> Digits(left), bottom |-> Digits(bottom),
                         height |-> objs[cur].height,
                         width |-> IF width = undefined THEN undefined
                                   ELSE Some(Digits(Val(width))),
                         page |-> objs[Val(currentPage)].page]
            IN /\ blockNumberLine' =
                      IndexPush(blockNumberLine, Get(files, fileNumber).path,
                                lineNumber, elem.page, ref)
               /\ objs' = IF "elements" \in DOMAIN objs[cur]
                          THEN [Append(objs, elem) EXCEPT ![cur].elements = Append(@, ref)]
                          ELSE Append(objs, elem)
               /\ UNCHANGED << pc, thrown, pdfsyncObject, files, pages, hBlocks,
                               numberPages, currentPage, currentElement, result >>

\* A line no pattern matches: nothing happens.
SkipLine ==
    /\ pc = "parse"
    /\ matched' = "none"
    /\ UNCHANGED << pc, thrown, pdfsyncObject, files, pages, blockNumberLine, hBlocks,
                    numberPages, currentPage, currentElement, objs, result >>

\* End of the text: the accumulators are stored and the object is returned.
Return ==
    /\ pc = "parse"
    /\ pc' = "done"
    /\ matched' = ""
    /\ pdfsyncObject' = [pdfsyncObject EXCEPT !.files = files, !.pages = pages,
                            !.blockNumberLine = blockNumberLine, !.hBlocks = hBlocks,
                            !.numberPages = numberPages]
    /\ UNCHANGED << thrown, files, pages, blockNumberLine, hBlocks, numberPages,
                    currentPage, currentElement, objs, result >>

---------------------------------------------------------------------------
(* getCoveringRectangle *)

\* The seed 2e16 of cTop, cLeft and record.distance.  It lies above every
\* length a 32-bit integer holds, so it is held as a value above every length
\* and distance the model draws.
TwoE16 == 2000000000

RECURSIVE CoverFrom(_, _, _)
CoverFrom(blocks, i, c) ==
    IF i > Len(blocks) THEN c
    ELSE LET b == blocks[i]
             top == b.bottom - b.height
             cBottom == IF b.bottom > c.bottom THEN b.bottom ELSE c.bottom
             cTop == IF top < c.top THEN top ELSE c.top
             cLeft == IF b.left < c.left THEN b.left ELSE c.left
             cRight == IF b.width # undefined /\ b.left + Val(b.width) > c.right
                       THEN b.left + Val(b.width) ELSE c.right
         IN CoverFrom(blocks, i + 1,
                      [top |-> cTop, bottom |-> cBottom, left |-> cLeft, right |-> cRight])

\* The rectangle with an absent width taken as the width 0
getCoveringRectangleWidthZero(blocks) ==
    CoverFrom([i \in DOMAIN blocks |->
                  [blocks[i] EXCEPT !.width = IF @ = undefined THEN Some(0) ELSE @]],
              1, [top |-> TwoE16, bottom |-> 0, left |-> TwoE16, right |-> 0])

\* The rectangle with top taken as bottom + height
getCoveringRectangleTopBelow(blocks) ==
    CoverFrom([i \in DOMAIN blocks |-> [blocks[i] EXCEPT !.height = -@]],
              1, [top |-> TwoE16, bottom |-> 0, left |-> TwoE16, right |-> 0])

getCoveringRectangle(blocks) ==
    CoverFrom(blocks, 1, [top |-> TwoE16, bottom |-> 0, left |-> TwoE16, right |-> 0])

\* The Block objects an index bucket refers to
Blocks(refs) == [i \in DOMAIN refs |-> objs[refs[i]]]

---------------------------------------------------------------------------
(* Object.keys *)

\* Object.keys of an object whose keys are canonical array indices (line
\* numbers, page numbers): ascending numeric order, whatever the insertion order.
IntegerKeys(o) == Ascending({o[i].k : i \in DOMAIN o})

\* Object.keys of an object whose keys are other strings (paths): insertion order.
StringKeys(o) == InsertionKeys(o)

---------------------------------------------------------------------------
(* syncTexJsForward *)

Max(a, b) == IF a >= b THEN a ELSE b

\* findIndex with x > line for x >= line
findIndexStrict(lineNums, line) ==
    IF \E j \in DOMAIN lineNums : lineNums[j] > line
    THEN (CHOOSE j \in DOMAIN lineNums :
             /\ lineNums[j] > line
             /\ \A h \in DOMAIN lineNums : lineNums[h] > line => j <= h) - 1
    ELSE -1

\* lineNums.findIndex(x => x >= line), counted from 0; -1 when there is none
findIndex(lineNums, line) ==
    IF \E j \in DOMAIN lineNums : lineNums[j] >= line
    THEN (CHOOSE j \in DOMAIN lineNums :
             /\ lineNums[j] >= line
             /\ \A h \in DOMAIN lineNums : lineNums[h] >= line => j <= h) - 1
    ELSE -1

\* The interpolated bottom with the division by line1 - line0 left out
InterpolatedBottomUndivided(c0, c1, line0, line1, line) ==
    [num |-> c0.bottom * (line1 - line) + c1.bottom * (line - line0), den |-> 1]

\* c0.bottom * (line1 - line) / (line1 - line0) + c1.bottom * (line - line0) / (line1 - line0)
InterpolatedBottom(c0, c1, line0, line1, line) ==
    [num |-> c0.bottom * (line1 - line) + c1.bottom * (line - line0), den |-> line1 - line0]

\* The bucket of the page inserted first
FirstPageBlocksInsertion(pageBlocks) == Blocks(Get(pageBlocks, InsertionKeys(pageBlocks)[1]))

\* pageBlocks[Number(Object.keys(pageBlocks)[0])]
FirstPageBlocks(pageBlocks) == Blocks(Get(pageBlocks, IntegerKeys(pageBlocks)[1]))

syncTexJsForward(line, filePath, pdfSyncObject) ==
    IF ~Has(pdfSyncObject.blockNumberLine, filePath)
    THEN [outcome |-> "TypeError"]              \* Object.keys(undefined)
    ELSE
    LET linePageBlocks == Get(pdfSyncObject.blockNumberLine, filePath)
        lineNums == IntegerKeys(linePageBlocks)
        i == findIndex(lineNums, line)
    IN IF i = 0 \/ (i > 0 /\ lineNums[i + 1] = line)
       THEN LET l == lineNums[i + 1]
                blocks == FirstPageBlocks(Get(linePageBlocks, l))
                c == getCoveringRectangle(blocks)
            IN [outcome |-> "ok", via |-> "exact", page |-> blocks[1].page,
                x |-> c.left + pdfSyncObject.offset.x,
                y |-> [num |-> c.bottom + pdfSyncObject.offset.y, den |-> 1]]
       ELSE IF i = -1
       THEN [outcome |-> "TypeError"]           \* Object.keys(linePageBlocks[undefined])
       ELSE LET line0 == lineNums[i]
                blocks0 == FirstPageBlocks(Get(linePageBlocks, line0))
                c0 == getCoveringRectangle(blocks0)
                line1 == lineNums[i + 1]
                blocks1 == FirstPageBlocks(Get(linePageBlocks, line1))
                c1 == getCoveringRectangle(blocks1)
                bottom == InterpolatedBottom(c0, c1, line0, line1, line)
            IN [outcome |-> "ok", via |-> "interpolated", page |-> blocks1[1].page,
                x |-> c1.left + pdfSyncObject.offset.x,
                y |-> [num |-> bottom.num + pdfSyncObject.offset.y * bottom.den,
                       den |-> bottom.den]]

---------------------------------------------------------------------------
(* syncTexJsBackward *)

RECURSIVE Concat(_)
Concat(ss) == IF ss = << >> THEN << >> ELSE Head(ss) \o Concat(Tail(ss))

\* The buckets with every level listed in insertion order
ScanOrderInsertion(index) ==
    Concat([f \in DOMAIN InsertionKeys(index) |->
        LET fileName == InsertionKeys(index)[f]
            linePageBlocks == Get(index, fileName)
            lineNums == InsertionKeys(linePageBlocks)
        IN Concat([l \in DOMAIN lineNums |->
               LET pageBlocks == Get(linePageBlocks, lineNums[l])
                   pageNums == InsertionKeys(pageBlocks)
               IN [g \in DOMAIN pageNums |->
                      [input |-> fileName, line |-> lineNums[l], page |-> pageNums[g],
                       blocks |-> Blocks(Get(pageBlocks, pageNums[g]))]]])])

\* The (file, line, page) buckets in the order the three nested loops visit them
ScanOrder(index) ==
    Concat([f \in DOMAIN StringKeys(index) |->
        LET fileName == StringKeys(index)[f]
            linePageBlocks == Get(index, fileName)
            lineNums == IntegerKeys(linePageBlocks)
        IN Concat([l \in DOMAIN lineNums |->
               LET pageBlocks == Get(linePageBlocks, lineNums[l])
                   pageNums == IntegerKeys(pageBlocks)
               IN [g \in DOMAIN pageNums |->
                      [input |-> fileName, line |-> lineNums[l], page |-> pageNums[g],
                       blocks |-> Blocks(Get(pageBlocks, pageNums[g]))]]])])

\* The test of the immediate return
Contains(box, x0, y0) ==
    box.bottom <= y0 /\ y0 <= box.top /\ box.left <= x0 /\ x0 <= box.right

\* Math.max(box.bottom - y0, y0 - box.top, box.left - x0, x0 - box.right)
Distance(box, x0, y0) ==
    Max(Max(box.bottom - y0, y0 - box.top), Max(box.left - x0, x0 - box.right))

\* The scan with the page of a bucket left unchecked
RECURSIVE ScanAnyPage(_, _, _, _, _, _)
ScanAnyPage(buckets, k, page, x0, y0, record) ==
    IF k > Len(buckets)
    THEN IF record.input = ""
         THEN [outcome |-> "SyncTexJsError"]
         ELSE [outcome |-> "ok", via |-> "nearest", input |-> record.input,
               line |-> record.line, column |-> 0]
    ELSE LET box == getCoveringRectangle(buckets[k].blocks)
             dist == Distance(box, x0, y0)
         IN IF Contains(box, x0, y0)
            THEN [outcome |-> "ok", via |-> "containment", input |-> buckets[k].input,
                  line |-> buckets[k].line, column |-> 0]
            ELSE IF dist < record.distance
            THEN ScanAnyPage(buckets, k + 1, page, x0, y0,
                             [input |-> buckets[k].input, line |-> buckets[k].line,
                              distance |-> dist])
            ELSE ScanAnyPage(buckets, k + 1, page, x0, y0, record)

RECURSIVE Scan(_, _, _, _, _, _)
Scan(buckets, k, page, x0, y0, record) ==
    IF k > Len(buckets)
    THEN IF record.input = ""
         THEN [outcome |-> "SyncTexJsError"]
         ELSE [outcome |-> "ok", via |-> "nearest", input |-> record.input,
               line |-> record.line, column |-> 0]
    ELSE IF page # buckets[k].page
    THEN Scan(buckets, k + 1, page, x0, y0, record)
    ELSE LET box == getCoveringRectangle(buckets[k].blocks)
             dist == Distance(box, x0, y0)
         IN IF Contains(box, x0, y0)
            THEN [outcome |-> "ok", via |-> "containment", input |-> buckets[k].input,
                  line |-> buckets[k].line, column |-> 0]
            ELSE IF dist < record.distance
            THEN Scan(buckets, k + 1, page, x0, y0,
                      [input |-> buckets[k].input, line |-> buckets[k].line,
                       distance |-> dist])
            ELSE Scan(buckets, k + 1, page, x0, y0, record)

\* syncTexJsBackward with record.distance starting at 0
syncTexJsBackwardFromZero(page, x, y, pdfSyncObject) ==
    LET x0 == x - pdfSyncObject.offset.x
        y0 == y - pdfSyncObject.offset.y
        fileNames == StringKeys(pdfSyncObject.blockNumberLine)
    IN IF Len(fileNames) = 0
       THEN [outcome |-> "SyncTexJsError"]
       ELSE Scan(ScanOrder(pdfSyncObject.blockNumberLine), 1, page, x0, y0,
                 [input |-> "", line |-> 0, distance |-> 0])

syncTexJsBackward(page, x, y, pdfSyncObject) ==
    LET x0 == x - pdfSyncObject.offset.x
        y0 == y - pdfSyncObject.offset.y
        fileNames == StringKeys(pdfSyncObject.blockNumberLine)
    IN IF Len(fileNames) = 0
       THEN [outcome |-> "SyncTexJsError"]
       ELSE Scan(ScanOrder(pdfSyncObject.blockNumberLine), 1, page, x0, y0,
                 [input |-> "", line |-> 0, distance |-> TwoE16])

---------------------------------------------------------------------------
(* The calls.  Every call parses the text anew and answers once. *)

Forward(line, filePath) ==
    /\ pc = "done"
    /\ result.op = "none"
    /\ result' = [op |-> "forward", line |-> line, filePath |-> filePath,
                  ret |-> syncTexJsForward(line, filePath, pdfsyncObject)]
    /\ UNCHANGED parserVars

Backward(page, x, y) ==
    /\ pc = "done"
    /\ result.op = "none"
    /\ result' = [op |-> "backward", page |-> page, x |-> x, y |-> y,
                  ret |-> syncTexJsBackward(page, x, y, pdfsyncObject)]
    /\ UNCHANGED parserVars

---------------------------------------------------------------------------
(* The parser over every text: any line may follow any line *)

MaxObjs == 4            \* pages, blocks and elements created in one parse

InputLines == { << 1, "a.tex" >> }

PageNums == {1, 2}

ElementFileNumbers == {1, 2}      \* file 2 is never declared

\* <<line, width>> of the element lines: one without a width, one with
ElementLines == { << 1, undefined >>, << 2, Some(1) >> }

Next ==
    \/ ReturnEmpty
    \/ ReadVersion("1")
    \/ \E f \in InputLines : InputFile(f[1], f[2])
    \/ Offset("X", 1)
    \/ \E n \in PageNums : Len(objs) < MaxObjs /\ NewPage(n)
    \/ \E n \in PageNums : ClosePage(n)
    \/ Len(objs) < MaxObjs /\ NewVBlock(1, 1, 0, 2, 3, 1, 0)
    \/ CloseVBlock
    \/ Len(objs) < MaxObjs /\ NewHBlock(1, 1, 0, 2, 3, 2)
    \/ CloseHBlock
    \/ \E f \in ElementFileNumbers, e \in ElementLines :
          Len(objs) < MaxObjs /\ NewElement("x", f, e[1], 1, 2, e[2])
    \/ SkipLine
    \/ Return

Spec == Init /\ [][Next]_vars

---------------------------------------------------------------------------
(* Texts of a fixed shape, parsed by the actions above: the declarations of
   a.tex and b.tex, optionally both offsets, then boxes of one element each,
   every box on a page of its own.  They build the parsed objects the queries
   are asked about. *)

\* The elements recorded so far
Elements == { i \in DOMAIN objs : isBlock(i) /\ "elements" \notin DOMAIN objs[i] }

\* No box is open, or the open box has its element
BoxDone ==
    \/ objs = << >>
    \/ /\ currentElement # undefined
       /\ isBlock(Val(currentElement))
       /\ objs[Val(currentElement)].elements # << >>

InPage == currentElement # undefined /\ ~isBlock(Val(currentElement))

InEmptyBox ==
    /\ currentElement # undefined
    /\ isBlock(Val(currentElement))
    /\ objs[Val(currentElement)].elements = << >>

\* The raw offsets of the texts that state them
PreambleOffset == [x |-> 1, y |-> 2]

Preamble ==
    \/ ReadVersion("1")
    \/ objs = << >> /\ Len(files) = 0 /\ InputFile(1, "a.tex")
    \/ objs = << >> /\ Len(files) = 1 /\ InputFile(2, "b.tex")
    \/ objs = << >> /\ Len(files) = 2 /\ pdfsyncObject.offset = [x |-> 0, y |-> 0]
         /\ Offset("X", PreambleOffset.x)
    \/ objs = << >> /\ pdfsyncObject.offset = [x |-> PreambleOffset.x, y |-> 0]
         /\ Offset("Y", PreambleOffset.y)

PreambleDone ==
    /\ Len(files) = 2
    /\ pdfsyncObject.offset \in { [x |-> 0, y |-> 0], PreambleOffset }

\* The text may end before any declaration, or after a complete box.
EndOfText ==
    /\ (objs = << >> /\ Len(files) = 0) \/ (PreambleDone /\ BoxDone)
    /\ Return

---------------------------------------------------------------------------
(* syncTexJsBackward over parsed texts *)

MaxBackwardElements == 2

\* <<file number, line>> of the elements
BackwardLines == { << 1, 1 >>, << 1, 2 >>, << 2, 1 >> }

\* Boxes: the height of the vertical block, and left, bottom, width of its
\* element.  The first gives the rectangle left 0, right 10, bottom 10, top 0.
BackwardBoxes ==
    { [height |-> 10, left |-> 0, bottom |-> 10, width |-> 10],
      [height |-> 2,  left |-> 0, bottom |-> 6,  width |-> 10],
      [height |-> -4, left |-> 2, bottom |-> 4,  width |-> 6],
      [height |-> -8, left |-> 0, bottom |-> 2,  width |-> 10] }

BackwardXs == {5, 12}

BackwardYs == {3, 5, 7, 12}

NextBackward ==
    \/ Preamble
    \/ \E n \in PageNums :
          /\ PreambleDone /\ BoxDone
          /\ Cardinality(Elements) < MaxBackwardElements
          /\ NewPage(n)
    \/ \E b \in BackwardBoxes :
          InPage /\ NewVBlock(1, 1, b.left, b.bottom, b.width, b.height, 0)
    \/ \E f \in BackwardLines :
          /\ InEmptyBox
          /\ LET b == objs[Val(currentElement)]
             IN NewElement("x", f[1], f[2], b.left, b.bottom, b.width)
    \/ EndOfText
    \/ \E page \in PageNums, x \in BackwardXs, y \in BackwardYs : Backward(page, x, y)

SpecBackward == Init /\ [][NextBackward]_vars

---------------------------------------------------------------------------
(* Claims about syncTexJsBackward *)

\* The buckets of the requested page, in scan order
OnPage(page) ==
    SelectSeq(ScanOrder(pdfsyncObject.blockNumberLine), LAMBDA b : b.page = page)

\* The point lies within the rectangle, its four sides included
Within(box, x0, y0) ==
    box.left <= x0 /\ x0 <= box.right /\ box.top <= y0 /\ y0 <= box.bottom

BackwardX0 == result.x - pdfsyncObject.offset.x

BackwardY0 == result.y - pdfsyncObject.offset.y

\* The first bucket of a non-empty sequence that satisfies Test
FirstWith(buckets, Test(_)) ==
    buckets[CHOOSE k \in DOMAIN buckets :
                /\ Test(buckets[k])
                /\ \A h \in DOMAIN buckets : Test(buckets[h]) => k <= h]

WithinBucket(b) == Within(getCoveringRectangle(b.blocks), BackwardX0, BackwardY0)

BucketDistance(b) == Distance(getCoveringRectangle(b.blocks), BackwardX0, BackwardY0)

\* C1: when the translated point lies within the covering rectangle of some
\* bucket of the requested page (left <= x0 <= right, top <= y0 <= bottom),
\* syncTexJsBackward returns the (file, line) of the first such bucket in scan
\* order, through the immediate return.
C1_ContainmentReturnsFirst ==
    (result.op = "backward" /\ \E k \in DOMAIN OnPage(result.page) :
                                   WithinBucket(OnPage(result.page)[k]))
    => LET first == FirstWith(OnPage(result.page), WithinBucket)
       IN /\ result.ret.outcome = "ok"
          /\ result.ret.via = "containment"
          /\ result.ret.input = first.input
          /\ result.ret.line = first.line

\* The example of C1: one bucket with left 0, right 10, bottom 10, top 0 on
\* page 1, queried at (1, 5, 5) with no offset.
C1_Example ==
    /\ result.op = "backward"
    /\ result.page = 1 /\ result.x = 5 /\ result.y = 5
    /\ pdfsyncObject.offset = [x |-> 0, y |-> 0]
    /\ Len(ScanOrder(pdfsyncObject.blockNumberLine)) = 1
    /\ Len(OnPage(1)) = 1
    /\ getCoveringRectangle(OnPage(1)[1].blocks)
          = [top |-> 0, bottom |-> 10, left |-> 0, right |-> 10]

\* The example of C1 takes the immediate return.
C1_ExampleTakesContainment == C1_Example => result.ret.via = "containment"

IsNearest(b) ==
    \A h \in DOMAIN OnPage(result.page) :
        BucketDistance(b) <= BucketDistance(OnPage(result.page)[h])

\* C4: when the translated point is outside every covering rectangle of the
\* requested page, syncTexJsBackward returns the (file, line) of the first
\* bucket in scan order whose distance
\* max(bottom - y0, y0 - top, left - x0, x0 - right) is the least of the page.
C4_NearestFallback ==
    (/\ result.op = "backward"
     /\ OnPage(result.page) # << >>
     /\ \A k \in DOMAIN OnPage(result.page) : ~WithinBucket(OnPage(result.page)[k]))
    => LET nearest == FirstWith(OnPage(result.page), IsNearest)
       IN /\ result.ret.outcome = "ok"
          /\ result.ret.input = nearest.input
          /\ result.ret.line = nearest.line

\* C6: syncTexJsBackward fails with SyncTexJsError when no input file is
\* registered and when the requested page has no bucket; when the page has a
\* bucket it returns a record whose input is a non-empty path.
C6_BackwardLookupError ==
    result.op = "backward" =>
        /\ Len(pdfsyncObject.files) = 0 => result.ret.outcome = "SyncTexJsError"
        /\ OnPage(result.page) = << >> => result.ret.outcome = "SyncTexJsError"
        /\ OnPage(result.page) # << >> =>
              result.ret.outcome = "ok" /\ result.ret.input # ""

\* A query of a page without a bucket, on an index that has buckets
C6_Witness ==
    /\ result.op = "backward"
    /\ pdfsyncObject.blockNumberLine # << >>
    /\ OnPage(result.page) = << >>
    /\ result.ret.outcome = "SyncTexJsError"

---------------------------------------------------------------------------
(* syncTexJsForward over parsed texts *)

MaxForwardElements == 3

\* Lines of a.tex that have elements; b.tex is declared and never has any.
ForwardLines == {1, 3, 6}

\* Boxes: left and bottom of the horizontal block and of its element
ForwardBoxes == { [left |-> 0, bottom |-> 2], [left |-> 3, bottom |-> 7] }

\* Requested lines: below, at, between and above the recorded ones
ForwardRequests == 0 .. 7

ForwardPaths == { "a.tex", "b.tex" }

NextForward ==
    \/ Preamble
    \/ \E n \in PageNums :
          /\ PreambleDone /\ BoxDone
          /\ Cardinality(Elements) < MaxForwardElements
          /\ NewPage(n)
    \/ \E b \in ForwardBoxes : InPage /\ NewHBlock(1, 1, b.left, b.bottom, 4, 1)
    \/ \E l \in ForwardLines :
          /\ InEmptyBox
          /\ LET b == objs[Val(currentElement)]
             IN NewElement("x", 1, l, b.left, b.bottom, undefined)
    \/ EndOfText
    \/ \E line \in ForwardRequests, filePath \in ForwardPaths : Forward(line, filePath)

SpecForward == Init /\ [][NextForward]_vars

---------------------------------------------------------------------------
(* Claims about syncTexJsForward *)

\* The recorded lines of the requested file, ascending (none: the file has no entry)
RecordedLines ==
    IF Has(pdfsyncObject.blockNumberLine, result.filePath)
    THEN IntegerKeys(Get(pdfsyncObject.blockNumberLine, result.filePath))
    ELSE << >>

\* The covering rectangle of the page bucket that forward selects for a recorded line
LineBlocks(l) ==
    FirstPageBlocks(Get(Get(pdfsyncObject.blockNumberLine, result.filePath), l))

LineRectangle(l) == getCoveringRectangle(LineBlocks(l))

\* C2: a requested line that is recorded, or lies below the smallest recorded
\* line (which then stands for it), yields page, c.left + offset.x and
\* c.bottom + offset.y of that line's rectangle, with no interpolation.
C2_ForwardExact ==
    (/\ result.op = "forward"
     /\ RecordedLines # << >>
     /\ \/ \E j \in DOMAIN RecordedLines : RecordedLines[j] = result.line
        \/ result.line < RecordedLines[1])
    => LET l == IF result.line < RecordedLines[1] THEN RecordedLines[1] ELSE result.line
           c == LineRectangle(l)
       IN result.ret = [outcome |-> "ok", via |-> "exact", page |-> LineBlocks(l)[1].page,
                        x |-> c.left + pdfsyncObject.offset.x,
                        y |-> [num |-> c.bottom + pdfsyncObject.offset.y, den |-> 1]]

\* A recorded line, not the smallest, of a file with a smaller and a larger
\* recorded line, answered with a non-zero offset
C2_Witness ==
    /\ result.op = "forward"
    /\ Len(RecordedLines) = 3
    /\ result.line = RecordedLines[2]
    /\ pdfsyncObject.offset.y # 0
    /\ result.ret.outcome = "ok"
    /\ LineRectangle(RecordedLines[1]).bottom # LineRectangle(RecordedLines[2]).bottom

Between(lo, v, hi) == (lo <= v /\ v <= hi) \/ (hi <= v /\ v <= lo)

C5_ForwardLookupError ==
    (result.op = "forward" /\ ~Has(pdfsyncObject.blockNumberLine, result.filePath))
    => result.ret.outcome = "SyncTexJsError"

---------------------------------------------------------------------------
(* getCoveringRectangle over the buckets of parsed texts: one page, boxes
   nested in one another, one element of line 1 of a.tex in each *)

MaxRectElements == 3

RectHeights == {-2, 2}

\* Raw left, bottom and width of the element lines; a minus sign is dropped.
RectPositions == { [left |-> -1, bottom |-> 3], [left |-> 2, bottom |-> -1],
                   [left |-> 2, bottom |-> 3] }

RectWidths == { undefined, Some(0), Some(-2) }

\* The rectangle of a bucket, as both queries compute it
Rectangle ==
    /\ pc = "done"
    /\ result.op = "none"
    /\ \E k \in DOMAIN ScanOrder(pdfsyncObject.blockNumberLine) :
          LET blocks == ScanOrder(pdfsyncObject.blockNumberLine)[k].blocks
          IN result' = [op |-> "rectangle", blocks |-> blocks,
                        box |-> getCoveringRectangle(blocks)]
    /\ UNCHANGED parserVars

NextRect ==
    \/ ReadVersion("1")
    \/ objs = << >> /\ Len(files) = 0 /\ InputFile(1, "a.tex")
    \/ objs = << >> /\ Len(files) = 1 /\ NewPage(1)
    \/ \E h \in RectHeights :
          /\ InPage \/ (objs # << >> /\ BoxDone)
          /\ Cardinality(Elements) < MaxRectElements
          /\ NewVBlock(1, 1, 0, 0, 0, h, 0)
    \/ \E p \in RectPositions, w \in RectWidths :
          InEmptyBox /\ NewElement("x", 1, 1, p.left, p.bottom, w)
    \/ objs # << >> /\ BoxDone /\ Return
    \/ Rectangle

SpecRect == Init /\ [][NextRect]_vars

---------------------------------------------------------------------------
(* Claims about getCoveringRectangle *)

SetMax(S) == CHOOSE x \in S : \A y \in S : y <= x

SetMin(S) == CHOOSE x \in S : \A y \in S : x <= y

\* left + width of the blocks whose width is defined
Rights(blocks) ==
    { blocks[i].left + Val(blocks[i].width) :
         i \in { j \in DOMAIN blocks : blocks[j].width # undefined } }

\* C7: bottom is the greatest block.bottom, top the least block.bottom -
\* block.height, left the least block.left, and right the greatest block.left +
\* block.width over the blocks whose width is defined: a block without a width
\* leaves right as it is, a block of width 0 takes part.
C7_CoveringRectangle ==
    result.op = "rectangle" =>
        LET blocks == result.blocks
            box == result.box
        IN /\ box.bottom = SetMax({ blocks[i].bottom : i \in DOMAIN blocks })
           /\ box.top = SetMin({ blocks[i].bottom - blocks[i].height : i \in DOMAIN blocks })
           /\ box.left = SetMin({ blocks[i].left : i \in DOMAIN blocks })
           /\ Rights(blocks) # {} => box.right = SetMax(Rights(blocks))
           /\ Rights(blocks) = {} => box.right = 0

\* A block without a width lies to the right of every block that has one, and
\* a block of width 0 decides right.
C7_Witness ==
    /\ result.op = "rectangle"
    /\ \E i, j \in DOMAIN result.blocks :
          /\ result.blocks[i].width = undefined
          /\ result.blocks[j].width = Some(0)
          /\ result.blocks[j].left = result.box.right
          /\ result.blocks[i].left > result.box.right

\* C8, as claimed: for every non-empty list bottom >= top, and right >= left
\* whenever a block of the list has a width.
C8_RectangleOrdered ==
    result.op = "rectangle" =>
        /\ result.box.bottom >= result.box.top
        /\ Rights(result.blocks) # {} => result.box.right >= result.box.left

\* C8, amended: bottom >= top for every non-empty list whose heights are all
\* non-negative, and right >= left whenever a block of the list has a width.
C8_RectangleOrderedNonNegativeHeights ==
    result.op = "rectangle" =>
        /\ (\A i \in DOMAIN result.blocks : result.blocks[i].height >= 0)
              => result.box.bottom >= result.box.top
        /\ Rights(result.blocks) # {} => result.box.right >= result.box.left

\* Three blocks of non-negative height, with and without a width
C8_Witness ==
    /\ result.op = "rectangle"
    /\ Len(result.blocks) = 3
    /\ \A i \in DOMAIN result.blocks : result.blocks[i].height >= 0
    /\ \E i, j \in DOMAIN result.blocks :
          result.blocks[i].width = undefined /\ result.blocks[j].width # undefined
    /\ result.box.bottom > result.box.top
    /\ result.box.right > result.box.left

---------------------------------------------------------------------------
(* Claims about parseSyncTex *)

CloseMarkers == { "closeVBlock", "closeHBlock" }

\* The current context is undefined or is not a Block
NoOpenBlock == currentElement = undefined \/ ~isBlock(Val(currentElement))

C10_OutOfContextAborts ==
    [][/\ (matched' \in { "newVBlock", "newHBlock" } /\ currentPage = undefined)
          => (pc' = "error" /\ thrown' = "SyncTexJsError")
       /\ (matched' = "newElement" /\ (currentPage = undefined \/ NoOpenBlock))
          => (pc' = "error" /\ thrown' = "SyncTexJsError")
       /\ pc = "error" => pc' = "error"]_vars

\* A vertical block was opened after a page close and before the next page open.
C10_Witness ==
    /\ pc = "error"
    /\ thrown = "SyncTexJsError"
    /\ matched = "newVBlock"
    /\ pages # << >>
    /\ currentPage = undefined
    /\ currentElement # undefined

\* The current context is a Block
OpenBlock == currentElement # undefined /\ isBlock(Val(currentElement))

\* C11: every block close marker met while the current context is a Block
\* appends that Block to its parent's child-block list and makes the parent the
\* current context, whether the parent is another Block or the enclosing Page.
C11_CloseAppendsToParent ==
    [][(matched' \in CloseMarkers /\ OpenBlock)
       => LET cur == Val(currentElement)
              par == objs[cur].parent
          IN /\ currentElement' = Some(par)
             /\ objs'[par].blocks = Append(objs[par].blocks, cur)]_vars

---------------------------------------------------------------------------
(* The order of the scan of syncTexJsBackward *)

\* The buckets of an index, and of the returned index, each with the heap
\* positions of its elements.  Elements are created in text order, so a smaller position is an
\* earlier line of the sync text.
BucketsOf(index) ==
    UNION { UNION { { [input |-> index[f].k, line |-> index[f].v[l].k,
                       page |-> index[f].v[l].v[g].k, refs |-> index[f].v[l].v[g].v] :
                         g \in DOMAIN index[f].v[l].v } :
                    l \in DOMAIN index[f].v } :
            f \in DOMAIN index }

IndexBuckets == BucketsOf(pdfsyncObject.blockNumberLine)

\* The position of the first element recorded for a file, and for a line of a file
FileFirst(input) == SetMin({ b.refs[1] : b \in { c \in IndexBuckets : c.input = input } })

LineFirst(input, line) ==
    SetMin({ b.refs[1] : b \in { c \in IndexBuckets : c.input = input /\ c.line = line } })

\* Insertion order at every level
InsertionBefore(a, b) ==
    \/ FileFirst(a.input) < FileFirst(b.input)
    \/ /\ a.input = b.input
       /\ \/ LineFirst(a.input, a.line) < LineFirst(b.input, b.line)
          \/ a.line = b.line /\ a.refs[1] < b.refs[1]

\* Files in insertion order, then ascending line numbers, then ascending page numbers
NumericBefore(a, b) ==
    \/ FileFirst(a.input) < FileFirst(b.input)
    \/ /\ a.input = b.input
       /\ \/ a.line < b.line
          \/ a.line = b.line /\ a.page < b.page

BucketOf(e) ==
    CHOOSE b \in IndexBuckets : b.input = e.input /\ b.line = e.line /\ b.page = e.page

\* The scan visits every bucket once, in the order Before
VisitedInOrder(Before(_, _)) ==
    LET scan == ScanOrder(pdfsyncObject.blockNumberLine)
    IN /\ Len(scan) = Cardinality(IndexBuckets)
       /\ \A i, j \in DOMAIN scan : i < j => Before(BucketOf(scan[i]), BucketOf(scan[j]))

PageBuckets == { b \in IndexBuckets : b.page = result.page }

Box(b) == getCoveringRectangle(Blocks(b.refs))

Hit(b) == Contains(Box(b), BackwardX0, BackwardY0)

\* The buckets that compete for the result: those that pass the test of the
\* immediate return or, when none does, those of least distance
Candidates ==
    IF \E b \in PageBuckets : Hit(b)
    THEN { b \in PageBuckets : Hit(b) }
    ELSE { b \in PageBuckets :
             \A c \in PageBuckets : Distance(Box(b), BackwardX0, BackwardY0)
                                       <= Distance(Box(c), BackwardX0, BackwardY0) }

FirstOf(S, Before(_, _)) == CHOOSE a \in S : \A b \in S \ {a} : Before(a, b)

ReturnsFirst(Before(_, _)) ==
    (result.op = "backward" /\ PageBuckets # {})
    => LET first == FirstOf(Candidates, Before)
       IN /\ result.ret.outcome = "ok"
          /\ result.ret.input = first.input
          /\ result.ret.line = first.line

\* C12, as claimed: the buckets are visited in insertion order at every level
\* (files, lines of a file, pages of a line, each by its first recorded
\* element), and of the buckets of the requested page that pass the
\* immediate-return test, or tie on the least distance, the one whose first
\* element comes earlier in the sync text is returned.
C12_InsertionOrder == VisitedInOrder(InsertionBefore) /\ ReturnsFirst(InsertionBefore)

\* C12, amended: files are visited in the order their first element was
\* recorded, the lines of a file in ascending line number and the pages of a
\* line in ascending page number; of the competing buckets the first in that
\* order is returned.
C12_NumericOrder == VisitedInOrder(NumericBefore) /\ ReturnsFirst(NumericBefore)

\* Two buckets of one file compete, the line recorded later has the smaller
\* number, and it is the one returned.
C12_Witness ==
    /\ result.op = "backward"
    /\ result.ret.outcome = "ok"
    /\ \E a, b \in Candidates :
          /\ a.input = b.input
          /\ a.refs[1] < b.refs[1]
          /\ b.line < a.line
          /\ result.ret.line = b.line

---------------------------------------------------------------------------
(* The page bucket syncTexJsForward uses *)

\* The page buckets of a line of the requested file
LineBuckets(l) == { b \in IndexBuckets : b.input = result.filePath /\ b.line = l }

\* The lines of the requested file that have a bucket
BucketLines == { b.line : b \in { c \in IndexBuckets : c.input = result.filePath } }

\* The bucket whose first element was recorded first, and the bucket of the
\* smallest page number
FirstRecorded(l) == CHOOSE b \in LineBuckets(l) : \A c \in LineBuckets(l) : b.refs[1] <= c.refs[1]

SmallestPage(l) == CHOOSE b \in LineBuckets(l) : \A c \in LineBuckets(l) : b.page <= c.page

\* The result of a successful forward query is computed from the buckets that
\* Pick selects for the lines it uses, and from no other bucket.
ForwardUses(Pick(_)) ==
    (result.op = "forward" /\ result.ret.outcome = "ok")
    => LET line == result.line
           offset == pdfsyncObject.offset
       IN IF line \in BucketLines \/ line < SetMin(BucketLines)
          THEN LET l == IF line \in BucketLines THEN line ELSE SetMin(BucketLines)
                   b == Pick(l)
               IN /\ result.ret.page = b.page
                  /\ result.ret.x = Box(b).left + offset.x
                  /\ result.ret.y = [num |-> Box(b).bottom + offset.y, den |-> 1]
          ELSE LET line0 == SetMax({ l \in BucketLines : l < line })
                   line1 == SetMin({ l \in BucketLines : l > line })
                   b0 == Pick(line0)
                   b1 == Pick(line1)
                   den == line1 - line0
               IN /\ result.ret.page = b1.page
                  /\ result.ret.x = Box(b1).left + offset.x
                  /\ result.ret.y =
                        [num |-> Box(b0).bottom * (line1 - line)
                                   + Box(b1).bottom * (line - line0) + offset.y * den,
                         den |-> den]

\* C13, as claimed: for a recorded line with elements on more than one page,
\* the page bucket used for the rectangle and for the reported page is the one
\* recorded first in the sync text, also when its page number is the larger.
C13_FirstRecordedPage == ForwardUses(FirstRecorded)

\* C13, amended: the page bucket used is the one of the smallest page number,
\* also when a bucket of a larger page number was recorded first.
C13_SmallestPage == ForwardUses(SmallestPage)

\* The requested line was recorded on page 2 first and on page 1 later, in a
\* different place, and page 1 is reported.
C13_Witness ==
    /\ result.op = "forward"
    /\ result.ret.outcome = "ok"
    /\ result.line \in BucketLines
    /\ Cardinality(LineBuckets(result.line)) = 2
    /\ FirstRecorded(result.line).page > SmallestPage(result.line).page
    /\ Box(FirstRecorded(result.line)) # Box(SmallestPage(result.line))
    /\ result.ret.page = SmallestPage(result.line).page

---------------------------------------------------------------------------
(* The returned block tree and the derived index *)

\* The elements met from a Block downwards: its own elements in order, then
\* those of its child blocks in order
RECURSIVE WalkBlock(_)
WalkBlock(b) ==
    objs[b].elements
       \o Concat([i \in DOMAIN objs[b].blocks |-> WalkBlock(objs[b].blocks[i])])

\* The elements met from the returned pages table downwards
WalkPages ==
    LET table == pdfsyncObject.pages
        keys == IntegerKeys(table)
    IN Concat([i \in DOMAIN keys |->
          LET page == objs[Get(table, keys[i])]
          IN Concat([j \in DOMAIN page.blocks |-> WalkBlock(page.blocks[j])])])

\* (element file path, element line, element page)
ElementKey(e) ==
    [input |-> Val(objs[e].file).path, line |-> objs[e].line, page |-> objs[e].page]

\* The buckets the walk yields, each with its elements in the order of the walk
WalkBuckets ==
    { [input |-> k.input, line |-> k.line, page |-> k.page,
       refs |-> SelectSeq(WalkPages, LAMBDA e : ElementKey(e) = k)] :
         k \in { ElementKey(WalkPages[i]) : i \in DOMAIN WalkPages } }

\* C14: after a successful parse the derived index is exactly what the walk of
\* the returned tree (pages table, each Page's blocks, child blocks
\* recursively, each block's elements in order) collects under (file path,
\* line, page): no element of the index is missing and every bucket has its
\* elements in the same order.
C14_IndexFromTree == pc = "done" => WalkBuckets = IndexBuckets

---------------------------------------------------------------------------
(* Recording an element *)

\* The bucket of a key in a set of buckets, empty when there is none
RefsOf(buckets, k) ==
    IF \E b \in buckets : b.input = k.input /\ b.line = k.line /\ b.page = k.page
    THEN (CHOOSE b \in buckets : b.input = k.input /\ b.line = k.line /\ b.page = k.page).refs
    ELSE << >>

\* The step records the element e of the block cur: height and page, the end
\* of its index bucket, the end of the block's element list, nothing else.
RecordsElement(e, cur) ==
    LET k == [input |-> Get(files, objs'[e].fileNumber).path, line |-> objs'[e].line,
              page |-> objs[Val(currentPage)].page]
        before == BucketsOf(blockNumberLine)
    IN /\ objs'[e].height = objs[cur].height
       /\ objs'[e].page = objs[Val(currentPage)].page
       /\ objs'[e].parent = cur
       /\ BucketsOf(blockNumberLine')
             = { b \in before : b.input # k.input \/ b.line # k.line \/ b.page # k.page }
               \cup { [input |-> k.input, line |-> k.line, page |-> k.page,
                       refs |-> Append(RefsOf(before, k), e)] }
       /\ objs'[cur].elements = Append(objs[cur].elements, e)
       /\ \A i \in DOMAIN objs : i # cur => objs'[i] = objs[i]

\* The blocks whose element list holds e, counted with repetitions
Holders(e) ==
    { << b, i >> \in (DOMAIN objs) \X (DOMAIN objs) :
         /\ "elements" \in DOMAIN objs[b]
         /\ i \in DOMAIN objs[b].elements
         /\ objs[b].elements[i] = e }

\* C15: an element line is accepted only while a page is open and the current
\* context is a Block; the Element has the height of that Block and the number
\* of the open Page, and goes to the end of its index bucket (path of its file
\* id, line, page) and to the end of the Block's element list.  So every
\* bucket lists its elements in text order, and every element of the index is
\* in exactly one Block's element list.
C15_ElementRecorded ==
    /\ [][(matched' = "newElement" /\ pc' = "parse")
          => /\ currentPage # undefined
             /\ OpenBlock
             /\ Len(objs') = Len(objs) + 1
             /\ RecordsElement(Len(objs) + 1, Val(currentElement))]_vars
    /\ [](\A b \in BucketsOf(blockNumberLine) :
             /\ b.refs # << >>
             /\ \A i, j \in DOMAIN b.refs : i < j => b.refs[i] < b.refs[j]
             /\ \A i \in DOMAIN b.refs : Cardinality(Holders(b.refs[i])) = 1)

\* Two elements were recorded in one bucket and in one block.
C15_Witness ==
    /\ matched = "newElement"
    /\ pc = "parse"
    /\ \E b \in BucketsOf(blockNumberLine) :
          /\ Len(b.refs) = 2
          /\ objs[Val(currentElement)].elements = b.refs

---------------------------------------------------------------------------
(* Parent references *)

\* The object reached from i by following at most fuel parent references up
\* to the first object that is not a Block; undefined when a reference leads
\* nowhere or the references run out of fuel
RECURSIVE Climb(_, _)
Climb(i, fuel) ==
    IF i \notin DOMAIN objs THEN undefined
    ELSE IF ~isBlock(i) THEN Some(i)
    ELSE IF fuel = 0 THEN undefined
    ELSE Climb(objs[i].parent, fuel - 1)

\* C16: at every point of the parse, the parent references of every Block and
\* Element lead, in fewer steps than there are objects, to a Page whose number
\* is the page field of the Block or Element.
C16_ParentChainEndsAtPage ==
    \A i \in DOMAIN objs :
        isBlock(i) =>
            LET root == Climb(i, Len(objs))
            IN /\ root # undefined
               /\ objs[Val(root)].type = "page"
               /\ objs[Val(root)].page = objs[i].page

\* A page was closed while a block was open, another page was opened, and a
\* block was opened in it: the two blocks end at different pages.
C16_Witness ==
    /\ pages # << >>
    /\ \E i, j \in DOMAIN objs :
          /\ isBlock(i) /\ isBlock(j) /\ i < j
          /\ Climb(i, Len(objs)) # Climb(j, Len(objs))
          /\ objs[i].page # objs[j].page
          /\ objs[Val(Climb(j, Len(objs)))].blocks = << >>

---------------------------------------------------------------------------
(* syncTexJsForward past the last recorded line *)

\* C17: for a file that has a recorded line, syncTexJsForward returns a
\* {page, x, y} result for every requested line, also for one greater than
\* every recorded line of the file.
C17_ForwardTotal ==
    (result.op = "forward" /\ Has(pdfsyncObject.blockNumberLine, result.filePath))
    => result.ret.outcome = "ok"

---------------------------------------------------------------------------
(* syncTexJsBackward and the pages it is not asked about: texts of the shape
   above with elements of line 1 of a.tex and of b.tex on two pages *)

MaxPagesElements == 3

PagesFiles == {1, 2}

\* Height of the vertical block, and left, bottom, width of its element
PagesBoxes ==
    { [height |-> 2, left |-> 0, bottom |-> 6, width |-> 10],
      [height |-> 2, left |-> 4, bottom |-> 6, width |-> 2] }

PagesXs == {5, 12}

PagesYs == {5, 9}

NextPages ==
    \/ Preamble
    \/ \E n \in PageNums :
          /\ PreambleDone /\ BoxDone
          /\ Cardinality(Elements) < MaxPagesElements
          /\ NewPage(n)
    \/ \E b \in PagesBoxes :
          InPage /\ NewVBlock(1, 1, b.left, b.bottom, b.width, b.height, 0)
    \/ \E f \in PagesFiles :
          /\ InEmptyBox
          /\ LET b == objs[Val(currentElement)]
             IN NewElement("x", f, 1, b.left, b.bottom, b.width)
    \/ EndOfText
    \/ \E page \in PageNums, x \in PagesXs, y \in PagesYs : Backward(page, x, y)

SpecPages == Init /\ [][NextPages]_vars

\* The index of the elements 1 .. n of the heap that lie on the page: the index
\* of the same text without its element lines of other pages
RECURSIVE PageIndex(_, _)
PageIndex(page, n) ==
    IF n = 0 THEN << >>
    ELSE IF n \in Elements /\ objs[n].page = page
    THEN IndexPush(PageIndex(page, n - 1), Val(objs[n].file).path, objs[n].line, page, n)
    ELSE PageIndex(page, n - 1)

\* The record names a non-empty bucket of the requested page and has column 0.
NamesPageBucket ==
    (result.op = "backward" /\ result.ret.outcome = "ok")
    => /\ result.ret.column = 0
       /\ \E b \in PageBuckets :
             b.input = result.ret.input /\ b.line = result.ret.line /\ b.refs # << >>

\* C18, as claimed: every record returned names a (file, line) with a
\* non-empty bucket on the requested page and has column 0, and the buckets of
\* other pages never change the result: it is the result of the same query on
\* the text without the elements of other pages.
C18_OtherPagesNeverChangeResult ==
    /\ NamesPageBucket
    /\ result.op = "backward"
       => result.ret = syncTexJsBackward(result.page, result.x, result.y,
                          [pdfsyncObject EXCEPT
                              !.blockNumberLine = PageIndex(result.page, Len(objs))])

\* C18, amended: every record returned names a (file, line) with a non-empty
\* bucket on the requested page and has column 0; the buckets of other pages
\* are never returned and never compete, whatever their distance: the bucket
\* returned is one of those of the requested page that pass the
\* immediate-return test or, when none does, one of least distance among them,
\* and the query fails exactly when the requested page has no bucket.
C18_OnlyRequestedPageCompetes ==
    /\ NamesPageBucket
    /\ result.op = "backward"
       => /\ result.ret.outcome = "ok" <=> PageBuckets # {}
          /\ result.ret.outcome = "ok"
             => \E b \in Candidates :
                   b.input = result.ret.input /\ b.line = result.ret.line

\* A record was returned although a bucket of another file and line-page on
\* the other page lies nearer to the point than every bucket of the requested
\* page.
C18_Witness ==
    /\ result.op = "backward"
    /\ result.ret.outcome = "ok"
    /\ \E o \in IndexBuckets \ PageBuckets :
          /\ o.input # result.ret.input
          /\ \A b \in PageBuckets :
                Distance(Box(o), BackwardX0, BackwardY0)
                   < Distance(Box(b), BackwardX0, BackwardY0)

====
